---------------------------- MODULE Spec2Model ----------------------------
(***************************************************************************)
(* noline: the editor session of src/noline/src/sync.rs (Editor::new,      *)
(* Editor::handle_output, Editor::readline, load_history, get_history) on  *)
(* top of embedded::IO (read / write / flush, each a retry loop around one *)
(* non-blocking transport operation, the ablock! macro).                   *)
(*                                                                         *)
(* One step of the model is one attempt of a primitive transport           *)
(* operation (with everything the code runs up to the next attempt), one   *)
(* resumption of the suspended task by its driver, or one call of the      *)
(* session surface.                                                        *)
(*                                                                         *)
(* The negotiator, the decoder, the line model, the output generator and   *)
(* the history store (crate::core, crate::output, crate::line_buffer,      *)
(* crate::history) are modelled from their description in the design       *)
(* document; bytes are their ASCII codes.                                  *)
(***************************************************************************)
EXTENDS Integers, Sequences, FiniteSets, TLC

(***************************************************************************)
(* Bounds of the model.                                                    *)
(***************************************************************************)
\* bytes one readline call may read from the transport
MaxReads == 4
\* bytes Editor::new may read from the transport
MaxNegReads == 6
\* would-block results the transport may give during one call
MaxBlocks == 1

(***************************************************************************)
(* Bytes.                                                                  *)
(***************************************************************************)
Byte ==
    [ETX |-> 3, BS |-> 8, LF |-> 10, CR |-> 13, ESC |-> 27, SEMI |-> 59,
     LBRACKET |-> 91, TILDE |-> 126, DEL |-> 127,
     A |-> 65, B |-> 66, C |-> 67, D |-> 68, F |-> 70, H |-> 72, K |-> 75,
     R |-> 82, n |-> 110]

IsDigit(b) == b \in 48..57

IsPrintable(b) == b \in 32..126

RECURSIVE UintToBytes(_)
UintToBytes(n) ==
    IF n < 10 THEN <<48 + n>> ELSE UintToBytes(n \div 10) \o <<48 + (n % 10)>>

Min(a, b) == IF a <= b THEN a ELSE b

(***************************************************************************)
(* Terminal negotiator (Initializer).                                      *)
(***************************************************************************)
\* Initializer::init(): the fixed probe, a cursor position request
InitProbe == <<Byte.ESC, Byte.LBRACKET, 54, Byte.n>>

NoTerminal == [width |-> 0, height |-> 0]

\* Initializer::new()
InitializerNew == [st |-> "AwaitingResponse", rows |-> 0, cols |-> 0, digits |-> 0]

InitializerIdle == [st |-> "None", rows |-> 0, cols |-> 0, digits |-> 0]

\* Initializer::advance(byte): the reply is ESC [ rows ; cols R
InitializerAdvance(s, b) ==
    CASE s.st = "AwaitingResponse" ->
           IF b = Byte.ESC
           THEN [res |-> "Continue", state |-> [s EXCEPT !.st = "Intro"], terminal |-> NoTerminal]
           ELSE [res |-> "InvalidInput", state |-> [s EXCEPT !.st = "Failed"], terminal |-> NoTerminal]
      [] s.st = "Intro" ->
           IF b = Byte.LBRACKET
           THEN [res |-> "Continue", state |-> [s EXCEPT !.st = "Rows"], terminal |-> NoTerminal]
           ELSE [res |-> "InvalidInput", state |-> [s EXCEPT !.st = "Failed"], terminal |-> NoTerminal]
      [] s.st = "Rows" ->
           IF IsDigit(b)
           THEN [res |-> "Continue",
                 state |-> [s EXCEPT !.rows = s.rows * 10 + (b - 48), !.digits = s.digits + 1],
                 terminal |-> NoTerminal]
           ELSE IF b = Byte.SEMI /\ s.digits > 0
           THEN [res |-> "Continue", state |-> [s EXCEPT !.st = "Cols", !.digits = 0],
                 terminal |-> NoTerminal]
           ELSE [res |-> "InvalidInput", state |-> [s EXCEPT !.st = "Failed"], terminal |-> NoTerminal]
      [] s.st = "Cols" ->
           IF IsDigit(b)
           THEN [res |-> "Continue",
                 state |-> [s EXCEPT !.cols = s.cols * 10 + (b - 48), !.digits = s.digits + 1],
                 terminal |-> NoTerminal]
           ELSE IF b = Byte.R /\ s.digits > 0
           THEN [res |-> "Item", state |-> [s EXCEPT !.st = "Done"],
                 terminal |-> [width |-> s.cols, height |-> s.rows]]
           ELSE [res |-> "InvalidInput", state |-> [s EXCEPT !.st = "Failed"], terminal |-> NoTerminal]
      [] OTHER ->
           [res |-> "InvalidInput", state |-> [s EXCEPT !.st = "Failed"], terminal |-> NoTerminal]

(***************************************************************************)
(* Escape-sequence decoder.                                                *)
(***************************************************************************)
\* parameter bytes one control sequence may carry
CsiParamMax == 4

ParserNew == [st |-> "Ground", params |-> 0]

KeyNone == [key |-> "None", ch |-> 0]

CsiFinal(b) ==
    CASE b = Byte.A -> "Up"
      [] b = Byte.B -> "Down"
      [] b = Byte.C -> "Right"
      [] b = Byte.D -> "Left"
      [] b = Byte.H -> "Home"
      [] b = Byte.F -> "End"
      [] b = Byte.TILDE -> "Delete"
      [] OTHER -> "Unrecognized"

\* one byte through the decoder: the next decoder state and the key event,
\* if the byte completes one
Decode(p, b) ==
    CASE p.st = "Ground" ->
           IF b = Byte.ESC THEN [state |-> [st |-> "Escape", params |-> 0], ev |-> KeyNone]
           ELSE IF b = Byte.CR THEN [state |-> ParserNew, ev |-> [key |-> "Enter", ch |-> 0]]
           ELSE IF b = Byte.ETX THEN [state |-> ParserNew, ev |-> [key |-> "Abort", ch |-> 0]]
           ELSE IF b \in {Byte.BS, Byte.DEL}
           THEN [state |-> ParserNew, ev |-> [key |-> "Backspace", ch |-> 0]]
           ELSE IF b \in 1..26 THEN [state |-> ParserNew, ev |-> [key |-> "CtrlLetter", ch |-> b]]
           ELSE IF IsPrintable(b) THEN [state |-> ParserNew, ev |-> [key |-> "Char", ch |-> b]]
           ELSE [state |-> ParserNew, ev |-> [key |-> "Unrecognized", ch |-> 0]]
      [] p.st = "Escape" ->
           IF b = Byte.LBRACKET
           THEN [state |-> [st |-> "CsiParams", params |-> 0], ev |-> KeyNone]
           ELSE [state |-> ParserNew, ev |-> [key |-> "Unrecognized", ch |-> 0]]
      [] OTHER ->
           IF IsDigit(b) \/ b = Byte.SEMI
           THEN IF p.params < CsiParamMax
                THEN [state |-> [p EXCEPT !.params = p.params + 1], ev |-> KeyNone]
                ELSE [state |-> ParserNew, ev |-> [key |-> "Unrecognized", ch |-> 0]]
           ELSE [state |-> ParserNew, ev |-> [key |-> CsiFinal(b), ch |-> 0]]

(***************************************************************************)
(* Line model (LineBuffer): fixed-capacity text and a cursor.              *)
(***************************************************************************)
\* insert(codepoint): BufferFull at capacity, the state unchanged
Insert(buf, cur, cap, c) ==
    IF Len(buf) >= cap THEN [buf |-> buf, cur |-> cur]
    ELSE [buf |-> SubSeq(buf, 1, cur) \o <<c>> \o SubSeq(buf, cur + 1, Len(buf)),
          cur |-> cur + 1]

DeleteLeft(buf, cur) ==
    IF cur = 0 THEN [buf |-> buf, cur |-> cur]
    ELSE [buf |-> SubSeq(buf, 1, cur - 1) \o SubSeq(buf, cur + 1, Len(buf)), cur |-> cur - 1]

DeleteRight(buf, cur) ==
    IF cur = Len(buf) THEN [buf |-> buf, cur |-> cur]
    ELSE [buf |-> SubSeq(buf, 1, cur) \o SubSeq(buf, cur + 2, Len(buf)), cur |-> cur]

\* replace_with(entry): truncated to the capacity, the cursor at the end
ReplaceWith(entry, cap) ==
    [buf |-> SubSeq(entry, 1, Min(Len(entry), cap)), cur |-> Min(Len(entry), cap)]

(***************************************************************************)
(* History store: a ring of entry slots, kept here oldest first.           *)
(***************************************************************************)
\* push(line): at capacity the oldest entry is overwritten
HistoryPush(h, hcap, line) ==
    IF hcap = 0 THEN h
    ELSE IF Len(h) < hcap THEN Append(h, line)
    ELSE Append(Tail(h), line)

\* load_entries(entries): entries are accepted until the capacity is reached
RECURSIVE LoadEntries(_, _, _)
LoadEntries(h, hcap, entries) ==
    IF entries = <<>> \/ Len(h) >= hcap THEN [history |-> h, accepted |-> 0]
    ELSE LET r == LoadEntries(Append(h, Head(entries)), hcap, Tail(entries))
         IN  [history |-> r.history, accepted |-> r.accepted + 1]

\* navigate(direction, current_index): index 0 is "not navigating", index i
\* is the i-th most recent entry; no move past either boundary
Navigate(h, dir, idx) ==
    IF dir = "Up" THEN (IF idx < Len(h) THEN idx + 1 ELSE 0)
    ELSE (IF idx > 1 THEN idx - 1 ELSE 0)

(***************************************************************************)
(* Output generator.                                                       *)
(***************************************************************************)
NoItem == [tag |-> "None", has |-> FALSE, bytes |-> <<>>]

ItemPrint(bytes) == [tag |-> "Print", has |-> TRUE, bytes |-> bytes]

ItemClearLine == [tag |-> "ClearLine", has |-> TRUE, bytes |-> <<Byte.ESC, Byte.LBRACKET, Byte.K>>]

ItemNoOp == [tag |-> "NoOp", has |-> FALSE, bytes |-> <<>>]

ItemEndOfString == [tag |-> "EndOfString", has |-> FALSE, bytes |-> <<>>]

ItemAbort == [tag |-> "Abort", has |-> FALSE, bytes |-> <<>>]

\* a cursor move from column from to column to
ItemMoveCursor(from, to) ==
    [tag |-> "MoveCursor", has |-> TRUE,
     bytes |-> IF to > from
               THEN <<Byte.ESC, Byte.LBRACKET>> \o UintToBytes(to - from) \o <<Byte.C>>
               ELSE <<Byte.ESC, Byte.LBRACKET>> \o UintToBytes(from - to) \o <<Byte.D>>]

RECURSIVE CommonPrefix(_, _)
CommonPrefix(a, b) ==
    IF a = <<>> \/ b = <<>> \/ Head(a) # Head(b) THEN 0
    ELSE 1 + CommonPrefix(Tail(a), Tail(b))

\* the items that take the display from (buf0, cur0) to (buf1, cur1)
Redraw(plen, term, buf0, cur0, buf1, cur1) ==
    IF buf0 = buf1
    THEN IF cur0 = cur1 THEN <<ItemNoOp>> ELSE <<ItemMoveCursor(cur0, cur1)>>
    ELSE LET s == CommonPrefix(buf0, buf1)
             suffix == SubSeq(buf1, s + 1, Len(buf1))
         IN  (IF cur0 # s THEN <<ItemMoveCursor(cur0, s)>> ELSE <<>>)
             \o <<ItemClearLine>>
             \o (IF suffix # <<>> THEN <<ItemPrint(suffix)>> ELSE <<>>)
             \o (IF plen + Len(buf1) >= term.width
                 THEN <<ItemPrint(<<Byte.CR, Byte.LF>>)>> ELSE <<>>)
             \o (IF cur1 # Len(buf1) THEN <<ItemMoveCursor(Len(buf1), cur1)>> ELSE <<>>)


(***************************************************************************)
(* Line (crate::core): the decoder, the line model and the history behind  *)
(* one readline call.  l is [prompt, buffer, cursor, terminal, history,    *)
(* parser, nav, cap, hcap].                                                *)
(***************************************************************************)
\* Line::reset(): the buffer is cleared, the prompt is rewritten
LineReset(l) ==
    [buffer |-> <<>>, cursor |-> 0, terminal |-> l.terminal,
     items |-> <<ItemClearLine, ItemPrint(l.prompt)>>]

\* the line model after key event k
ApplyKey(l, k, i) ==
    CASE k.key = "Char" -> Insert(l.buffer, l.cursor, l.cap, k.ch)
      [] k.key = "Backspace" -> DeleteLeft(l.buffer, l.cursor)
      [] k.key = "Delete" -> DeleteRight(l.buffer, l.cursor)
      [] k.key = "Left" -> [buf |-> l.buffer, cur |-> IF l.cursor > 0 THEN l.cursor - 1 ELSE 0]
      [] k.key = "Right" ->
           [buf |-> l.buffer, cur |-> IF l.cursor < Len(l.buffer) THEN l.cursor + 1 ELSE l.cursor]
      [] k.key = "Home" -> [buf |-> l.buffer, cur |-> 0]
      [] k.key = "End" -> [buf |-> l.buffer, cur |-> Len(l.buffer)]
      [] k.key \in {"Up", "Down"} /\ i > 0 ->
           ReplaceWith(l.history[Len(l.history) - i + 1], l.cap)
      [] OTHER -> [buf |-> l.buffer, cur |-> l.cursor]

\* Line::advance(byte)
LineAdvance(l, b) ==
    LET d == Decode(l.parser, b)
        k == d.ev
        i == IF k.key \in {"Up", "Down"} THEN Navigate(l.history, k.key, l.nav) ELSE 0
        e == ApplyKey(l, k, i)
    IN  [buffer |-> e.buf,
         cursor |-> e.cur,
         terminal |-> l.terminal,
         parser |-> d.state,
         nav |-> IF i > 0 THEN i ELSE l.nav,
         history |-> IF k.key = "Enter" THEN HistoryPush(l.history, l.hcap, l.buffer)
                     ELSE l.history,
         items |-> CASE k.key = "None" -> <<>>
                     [] k.key = "Enter" -> <<ItemPrint(<<Byte.CR, Byte.LF>>), ItemEndOfString>>
                     [] k.key = "Abort" -> <<ItemAbort>>
                     [] OTHER -> Redraw(Len(l.prompt), l.terminal, l.buffer, l.cursor,
                                        e.buf, e.cur)]

(***************************************************************************)
(* Inputs.                                                                 *)
(***************************************************************************)
\* the hard errors of the transport
Errs == {"E1", "E2"}

\* reply bytes the transport may deliver to Editor::new when the input is free
NegAlphabet == {Byte.ESC, Byte.LBRACKET, 49, Byte.SEMI, Byte.R, Byte.A}

\* key bytes the transport may deliver to readline when the input is free
KeyAlphabet == {Byte.CR, Byte.ETX, Byte.DEL, Byte.ESC, Byte.LBRACKET, Byte.A, Byte.D}

\* the prompts readline is called with
Prompts == {<<>>, <<62>>}

\* the configurations the editor is built with when the input is free: the
\* capacity of the line buffer (bytes) and of the history store (entry slots)
Configs == {[cap |-> 1, hcap |-> 1]}

\* the entry lists load_history is called with
LoadInputs == {<<<<98>>>>, <<<<98, 98, 98>>, <<99>>>>}

\* the scenario of the design document: a capacity-10 buffer, the reply
\* ESC [ 2 4 ; 8 0 R to the probe, then h e l l o Backspace p Enter
ScenarioReply == <<Byte.ESC, Byte.LBRACKET, 50, 52, Byte.SEMI, 56, 48, Byte.R>>

ScenarioKeys == <<104, 101, 108, 108, 111, Byte.DEL, 112, Byte.CR>>

\* the ring scenario of the design document: history capacity 2, then the
\* lines "a", "b", "c", each ended by Enter
RingKeys == <<97, Byte.CR, 98, Byte.CR, 99, Byte.CR>>

\* an input for two calls: the line "A" ended by Enter, then "D" and the
\* abort key
LiveKeys == <<Byte.A, Byte.CR, Byte.D, Byte.ETX>>

(***************************************************************************)
(* State.                                                                  *)
(***************************************************************************)
VARIABLES
    cfg,          \* construction-time configuration: [cap, hcap]
    tape,         \* the input: [scripted, bytes]
    phase,        \* Uninitialized, Negotiating, Ready, Editing, Failed
    ctx,          \* the code running: none, new, reset (readline, the output
                  \* of reset()), advance (readline, the output of advance())
    pc,           \* the primitive operation the task is at: idle, write, flush, read
    suspended,    \* the task has yielded and waits for its driver
    initializer,  \* Editor::new: the negotiator
    items,        \* handle_output: the items of the output not yet taken
    item,         \* handle_output: the item being emitted
    wbuf,         \* IO::write: the buffer being written
    wi,           \* IO::write: the index of the next byte
    buffer,       \* Editor.buffer: the text
    cursor,       \* Editor.buffer: the cursor
    terminal,     \* Editor.terminal
    history,      \* Editor.history, oldest first
    prompt,       \* Line: the prompt
    parser,       \* Line: the decoder
    nav,          \* Line: the history entry shown (0: none)
    result,       \* what the last call returned, "Pending" while one runs
    \* what an observer of the session and of the transport records
    call,         \* the last call made: none, new, readline, load_history, get_history
    ev,           \* the last primitive operation on the transport and its result
    accepted,     \* the bytes the transport accepted during the current IO::write
    nread,        \* bytes read during the call
    nadv,         \* bytes fed to the negotiator or to line.advance during the call
    fed,          \* the last byte fed to the negotiator or to line.advance
    negRes,       \* what the negotiator returned last
    unflushed,    \* items of the current output not yet written and flushed
    flushedTag,   \* the last item written and flushed during the call
    blocks,       \* would-block results during the call
    yields,       \* yields during the call
    seen,         \* the printable bytes read during the call
    hist0,        \* the history when the last readline call started
    term0,        \* the Terminal the negotiator produced
    probes        \* how often the writing of the init probe was started

vars ==
    <<cfg, tape, phase, ctx, pc, suspended, initializer, items, item, wbuf, wi,
      buffer, cursor, terminal, history, prompt, parser, nav, result, call, ev,
      accepted, nread, nadv, fed, negRes, unflushed, flushedTag, blocks, yields,
      seen, hist0, term0, probes>>

config == <<cfg>>

editor == <<buffer, cursor, terminal, history>>

lineVars == <<prompt, parser, nav>>

control == <<pc, items, item, wbuf, wi, accepted>>

\* what is recorded per call, but for ev
record == <<nread, nadv, fed, negRes, unflushed, flushedTag, blocks, yields, seen>>

NoResult == [kind |-> "None", err |-> "", line |-> <<>>, count |-> 0, entries |-> <<>>]

Pending == [NoResult EXCEPT !.kind = "Pending"]

\* byte: the byte read, or the byte a write submitted; tag: the item in hand
NoEvent == [op |-> "none", res |-> "none", byte |-> 0, err |-> "", tag |-> "None"]

InitCommon ==
    /\ phase = "Uninitialized"
    /\ ctx = "none"
    /\ pc = "idle"
    /\ suspended = FALSE
    /\ initializer = InitializerIdle
    /\ items = <<>>
    /\ item = NoItem
    /\ wbuf = <<>>
    /\ wi = 1
    /\ buffer = <<>>
    /\ cursor = 0
    /\ terminal = NoTerminal
    /\ history = <<>>
    /\ prompt = <<>>
    /\ parser = ParserNew
    /\ nav = 0
    /\ result = NoResult
    /\ call = "none"
    /\ ev = NoEvent
    /\ accepted = <<>>
    /\ nread = 0
    /\ nadv = 0
    /\ fed = 0
    /\ negRes = "none"
    /\ unflushed = 0
    /\ flushedTag = "none"
    /\ blocks = 0
    /\ yields = 0
    /\ seen = {}
    /\ hist0 = <<>>
    /\ term0 = NoTerminal
    /\ probes = 0

\* any input: the transport delivers any byte of the alphabets
Init ==
    /\ cfg \in Configs
    /\ tape = [scripted |-> FALSE, bytes |-> <<>>]
    /\ InitCommon

\* the scenario: the transport delivers the reply and the keys, then nothing
InitScenario ==
    /\ cfg = [cap |-> 10, hcap |-> 1]
    /\ tape = [scripted |-> TRUE, bytes |-> ScenarioReply \o ScenarioKeys]
    /\ InitCommon

\* the ring scenario: the reply, then the three lines
InitRing ==
    /\ cfg = [cap |-> 2, hcap |-> 2]
    /\ tape = [scripted |-> TRUE, bytes |-> ScenarioReply \o RingKeys]
    /\ InitCommon

\* a transport that may answer would-block any number of times: the reply,
\* then the keys of two calls
InitLive ==
    /\ cfg = [cap |-> 2, hcap |-> 1]
    /\ tape = [scripted |-> TRUE, bytes |-> ScenarioReply \o LiveKeys]
    /\ InitCommon

\* the bytes the transport can deliver to the next read
InputBytes ==
    IF tape.scripted
    THEN (IF tape.bytes = <<>> THEN {} ELSE {Head(tape.bytes)})
    ELSE (IF ctx = "new" THEN NegAlphabet ELSE KeyAlphabet)

\* the call may read another byte
MayRead ==
    tape.scripted \/ nread < (IF ctx = "new" THEN MaxNegReads ELSE MaxReads)

(***************************************************************************)
(* Control: where the task goes next.                                      *)
(***************************************************************************)
\* IO::write(buf): the loop over the bytes of buf, then (in every caller) a flush
StartWrite(it, rest, buf) ==
    [pc |-> IF buf # <<>> THEN "write" ELSE "flush",
     item |-> it, items |-> rest, wbuf |-> buf, wi |-> 1]

\* readline: the next byte is read
ReadNext ==
    [pc |-> "read", item |-> NoItem, items |-> <<>>, wbuf |-> <<>>, wi |-> 1]

\* BeginItem, but only an item that has bytes is written and flushed
BeginItemFlushesBytesOnly(it, rest) ==
    IF it.has THEN StartWrite(it, rest, it.bytes) ELSE ReadNext

\* handle_output, one iteration: the bytes of the item, if it has any, are written
BeginItem(it, rest) ==
    StartWrite(it, rest, IF it.has THEN it.bytes ELSE <<>>)

\* handle_output(output): the loop over the items; Ok(None) when they are used up
HandleOutput(out) ==
    IF out = <<>> THEN ReadNext ELSE BeginItem(Head(out), Tail(out))

\* AfterItem, but the loop over the items ends with its first item
AfterItemSkipsRest(c, it, rest, buf) ==
    CASE it.tag = "EndOfString" /\ c = "advance" ->
           [done |-> TRUE, result |-> [NoResult EXCEPT !.kind = "Ok", !.line = buf],
            next |-> ReadNext]
      [] it.tag = "Abort" ->
           [done |-> TRUE, result |-> [NoResult EXCEPT !.kind = "Aborted"], next |-> ReadNext]
      [] OTHER ->
           [done |-> FALSE, result |-> Pending, next |-> ReadNext]

\* AfterItem, but EndOfString is an item like any other
AfterItemIgnoresEnd(c, it, rest, buf) ==
    CASE it.tag = "Abort" ->
           [done |-> TRUE, result |-> [NoResult EXCEPT !.kind = "Aborted"], next |-> ReadNext]
      [] OTHER ->
           [done |-> FALSE, result |-> Pending, next |-> HandleOutput(rest)]

\* AfterItem, but Abort ends the call as EndOfString does
AfterItemAbortAsEnd(c, it, rest, buf) ==
    CASE it.tag \in {"EndOfString", "Abort"} /\ c = "advance" ->
           [done |-> TRUE, result |-> [NoResult EXCEPT !.kind = "Ok", !.line = buf],
            next |-> ReadNext]
      [] OTHER ->
           [done |-> FALSE, result |-> Pending, next |-> HandleOutput(rest)]

\* handle_output after the flush of item it, and readline after handle_output:
\* what the call returns, or where it goes on
AfterItem(c, it, rest, buf) ==
    CASE it.tag = "EndOfString" /\ c = "advance" ->
           [done |-> TRUE, result |-> [NoResult EXCEPT !.kind = "Ok", !.line = buf],
            next |-> ReadNext]
      [] it.tag = "EndOfString" /\ c # "advance" ->
           [done |-> FALSE, result |-> Pending, next |-> ReadNext]
      [] it.tag = "Abort" ->
           [done |-> TRUE, result |-> [NoResult EXCEPT !.kind = "Aborted"], next |-> ReadNext]
      [] OTHER ->
           [done |-> FALSE, result |-> Pending, next |-> HandleOutput(rest)]

\* TransportError, but every error is wrapped as a write error
TransportErrorAsWrite(op, e) ==
    [NoResult EXCEPT !.kind = "WriteError", !.err = e]

\* Error::read_error / Error::write_error
TransportError(op, e) ==
    [NoResult EXCEPT !.kind = IF op = "read" THEN "ReadError" ELSE "WriteError", !.err = e]

\* NegotiationOutcome, but a byte out of the grammar is skipped
NegotiationOutcomeLenient(res) ==
    CASE res = "Item" ->
           [done |-> TRUE, result |-> [NoResult EXCEPT !.kind = "NewOk"], phase |-> "Ready"]
      [] OTHER -> [done |-> FALSE, result |-> Pending, phase |-> "Negotiating"]

\* Editor::new, the match on what the negotiator returned
NegotiationOutcome(res) ==
    CASE res = "Continue" -> [done |-> FALSE, result |-> Pending, phase |-> "Negotiating"]
      [] res = "Item" ->
           [done |-> TRUE, result |-> [NoResult EXCEPT !.kind = "NewOk"], phase |-> "Ready"]
      [] OTHER ->
           [done |-> TRUE, result |-> [NoResult EXCEPT !.kind = "ParserError"],
            phase |-> "Failed"]

\* EditorNew, but the line buffer is not the empty one
EditorNewStaleBuffer(t) ==
    [buffer |-> InitProbe, cursor |-> 0, terminal |-> t, history |-> <<>>]

\* Editor::new, the Editor it returns
EditorNew(t) ==
    [buffer |-> <<>>, cursor |-> 0, terminal |-> t, history |-> <<>>]

\* readline: Line::new over the Editor's fields
LineNew(p) ==
    [prompt |-> p, buffer |-> buffer, cursor |-> cursor, terminal |-> terminal,
     history |-> history, parser |-> ParserNew, nav |-> 0,
     cap |-> cfg.cap, hcap |-> cfg.hcap]

\* CurLine, but the line is reset for every byte
CurLineReset ==
    [prompt |-> prompt, buffer |-> <<>>, cursor |-> 0, terminal |-> terminal,
     history |-> history, parser |-> parser, nav |-> nav,
     cap |-> cfg.cap, hcap |-> cfg.hcap]

\* the Line while readline runs
CurLine ==
    [prompt |-> prompt, buffer |-> buffer, cursor |-> cursor, terminal |-> terminal,
     history |-> history, parser |-> parser, nav |-> nav,
     cap |-> cfg.cap, hcap |-> cfg.hcap]

\* ReadlineStart, but the Terminal is built anew
ReadlineStartNewTerminal(l) == [LineReset(l) EXCEPT !.terminal = NoTerminal]

\* ReadlineStart, but the prompt is written without a reset of the line
ReadlineStartNoReset(l) ==
    [LineReset(l) EXCEPT !.buffer = l.buffer, !.cursor = l.cursor]

\* readline: the line is reset, its output is what handle_output gets first
ReadlineStart(l) == LineReset(l)

\* Advance, but the cursor is moved now and the text only with the output
AdvanceCursorFirst(l, b) == [LineAdvance(l, b) EXCEPT !.buffer = l.buffer]

\* readline: line.advance(byte), complete before its output is handled
Advance(l, b) == LineAdvance(l, b)

Goto(c) ==
    /\ pc' = c.pc
    /\ item' = c.item
    /\ items' = c.items
    /\ wbuf' = c.wbuf
    /\ wi' = c.wi
    /\ accepted' = <<>>

\* the call returns r: its locals are dropped
Return(r, ph) ==
    /\ result' = r
    /\ phase' = ph
    /\ ctx' = "none"
    /\ pc' = "idle"
    /\ item' = NoItem
    /\ items' = <<>>
    /\ wbuf' = <<>>
    /\ wi' = 1
    /\ accepted' = <<>>
    /\ initializer' = InitializerIdle
    /\ prompt' = <<>>
    /\ parser' = ParserNew
    /\ nav' = 0

\* what is recorded about one call starts afresh
Fresh(name) ==
    /\ call' = name
    /\ ev' = NoEvent
    /\ nread' = 0
    /\ nadv' = 0
    /\ fed' = 0
    /\ negRes' = "none"
    /\ flushedTag' = "none"
    /\ blocks' = 0
    /\ yields' = 0
    /\ seen' = {}

(***************************************************************************)
(* Editor::new                                                             *)
(***************************************************************************)
\* the call, up to the first byte of the probe
New ==
    /\ phase = "Uninitialized"
    /\ phase' = "Negotiating"
    /\ ctx' = "new"
    /\ initializer' = InitializerNew
    /\ Goto(StartWrite(NoItem, <<>>, InitProbe))
    /\ probes' = probes + 1
    /\ result' = Pending
    /\ Fresh("new")
    /\ UNCHANGED <<config, tape, suspended, editor, lineVars, unflushed, hist0, term0>>

\* io.flush(co) after the probe returned Ok: the reply is read
NewFlush ==
    /\ ctx = "new"
    /\ pc = "flush"
    /\ ~suspended
    /\ ev' = [NoEvent EXCEPT !.op = "flush", !.res = "Ok"]
    /\ flushedTag' = "Probe"
    /\ pc' = "read"
    /\ UNCHANGED <<config, tape, phase, ctx, suspended, initializer, items, item, wbuf, wi,
                   accepted, editor, lineVars, result, call, nread, nadv, fed, negRes,
                   unflushed, blocks, yields, seen, hist0, term0, probes>>

\* io.read(co) returned Ok(byte): the byte goes to the negotiator
NewRead ==
    /\ ctx = "new"
    /\ pc = "read"
    /\ ~suspended
    /\ MayRead
    /\ \E b \in InputBytes :
         LET r == InitializerAdvance(initializer, b)
             o == NegotiationOutcome(r.res)
             e == EditorNew(r.terminal)
         IN  /\ ev' = [NoEvent EXCEPT !.op = "read", !.res = "Ok", !.byte = b]
             /\ tape' = IF tape.scripted THEN [tape EXCEPT !.bytes = Tail(tape.bytes)] ELSE tape
             /\ fed' = b
             /\ negRes' = r.res
             /\ term0' = r.terminal
             /\ IF o.done
                THEN /\ Return(o.result, o.phase)
                     /\ IF o.phase = "Ready"
                        THEN /\ buffer' = e.buffer
                             /\ cursor' = e.cursor
                             /\ terminal' = e.terminal
                             /\ history' = e.history
                        ELSE UNCHANGED editor
                ELSE /\ initializer' = r.state
                     /\ UNCHANGED <<phase, ctx, control, editor, lineVars, result>>
    /\ nread' = nread + 1
    /\ nadv' = nadv + 1
    /\ UNCHANGED <<config, suspended, call, unflushed, flushedTag, blocks, yields, seen, hist0,
                   probes>>

(***************************************************************************)
(* Editor::readline and Editor::handle_output                              *)
(***************************************************************************)
\* the call: Line::new, line.reset(), up to the first operation on the transport
Readline ==
    /\ phase = "Ready"
    /\ \E p \in Prompts :
         LET r == ReadlineStart(LineNew(p))
         IN  /\ prompt' = p
             /\ buffer' = r.buffer
             /\ cursor' = r.cursor
             /\ terminal' = r.terminal
             /\ unflushed' = Len(r.items)
             /\ Goto(HandleOutput(r.items))
    /\ parser' = ParserNew
    /\ nav' = 0
    /\ phase' = "Editing"
    /\ ctx' = "reset"
    /\ hist0' = history
    /\ result' = Pending
    /\ Fresh("readline")
    /\ UNCHANGED <<config, tape, suspended, initializer, history, term0, probes>>

\* io.flush(co) after an item returned Ok: the item decides how the call goes on
ItemFlush ==
    /\ ctx \in {"reset", "advance"}
    /\ pc = "flush"
    /\ ~suspended
    /\ ev' = [NoEvent EXCEPT !.op = "flush", !.res = "Ok", !.tag = item.tag]
    /\ flushedTag' = item.tag
    /\ unflushed' = unflushed - 1
    /\ LET a == AfterItem(ctx, item, items, buffer)
       IN  IF a.done
           THEN Return(a.result, "Ready")
           ELSE /\ Goto(a.next)
                /\ UNCHANGED <<phase, ctx, initializer, lineVars, result>>
    /\ UNCHANGED <<config, tape, suspended, editor, call, nread, nadv, fed, negRes,
                   blocks, yields, seen, hist0, term0, probes>>

\* io.read(co) returned Ok(byte): line.advance(byte), then its output
ReadlineRead ==
    /\ ctx \in {"reset", "advance"}
    /\ pc = "read"
    /\ ~suspended
    /\ MayRead
    /\ \E b \in InputBytes :
         LET r == Advance(CurLine, b)
         IN  /\ ev' = [NoEvent EXCEPT !.op = "read", !.res = "Ok", !.byte = b]
             /\ tape' = IF tape.scripted THEN [tape EXCEPT !.bytes = Tail(tape.bytes)] ELSE tape
             /\ seen' = IF IsPrintable(b) THEN seen \cup {b} ELSE seen
             /\ fed' = b
             /\ buffer' = r.buffer
             /\ cursor' = r.cursor
             /\ terminal' = r.terminal
             /\ history' = r.history
             /\ parser' = r.parser
             /\ nav' = r.nav
             /\ unflushed' = Len(r.items)
             /\ Goto(HandleOutput(r.items))
    /\ nread' = nread + 1
    /\ nadv' = nadv + 1
    /\ ctx' = "advance"
    /\ UNCHANGED <<config, phase, suspended, initializer, prompt, result, call,
                   negRes, flushedTag, blocks, yields, hist0, term0, probes>>

(***************************************************************************)
(* embedded::IO and the ablock! retry loop                                 *)
(***************************************************************************)
\* what is recorded of an attempt of the operation at pc that did not return Ok
Attempt(res, e) ==
    [NoEvent EXCEPT !.op = pc, !.res = res, !.err = e, !.tag = item.tag,
                    !.byte = IF pc = "write" THEN wbuf[wi] ELSE 0]

\* WriteOk, but the loop steps over the byte that follows
WriteOkSkipsByte ==
    /\ pc = "write"
    /\ ~suspended
    /\ ev' = [NoEvent EXCEPT !.op = "write", !.res = "Ok", !.byte = wbuf[wi], !.tag = item.tag]
    /\ accepted' = Append(accepted, wbuf[wi])
    /\ wi' = wi + 2
    /\ pc' = IF wi + 1 >= Len(wbuf) THEN "flush" ELSE "write"
    /\ UNCHANGED <<config, tape, phase, ctx, suspended, initializer, items, item, wbuf,
                   editor, lineVars, result, call, record, hist0, term0, probes>>

\* IO::write: rw.write(b) returned Ok, the loop goes to the next byte
WriteOk ==
    /\ pc = "write"
    /\ ~suspended
    /\ ev' = [NoEvent EXCEPT !.op = "write", !.res = "Ok", !.byte = wbuf[wi], !.tag = item.tag]
    /\ accepted' = Append(accepted, wbuf[wi])
    /\ wi' = wi + 1
    /\ pc' = IF wi >= Len(wbuf) THEN "flush" ELSE "write"
    /\ UNCHANGED <<config, tape, phase, ctx, suspended, initializer, items, item, wbuf,
                   editor, lineVars, result, call, record, hist0, term0, probes>>

\* WouldBlock, but the operation is attempted again without a yield
WouldBlockNoYield ==
    /\ pc \in {"write", "flush", "read"}
    /\ ~suspended
    /\ blocks < MaxBlocks
    /\ ev' = Attempt("WouldBlock", "")
    /\ blocks' = blocks + 1
    /\ UNCHANGED <<config, tape, phase, ctx, suspended, initializer, control, editor, lineVars,
                   result, call, nread, nadv, fed, negRes, unflushed, flushedTag, yields,
                   seen, hist0, term0, probes>>

\* WouldBlock, but after a would-block result the call gives up with an error
WouldBlockTimesOut ==
    /\ pc \in {"write", "flush", "read"}
    /\ ~suspended
    /\ blocks < MaxBlocks
    /\ ev' = Attempt("WouldBlock", "")
    /\ blocks' = blocks + 1
    /\ Return(TransportError(pc, "E1"), IF ctx = "new" THEN "Failed" ELSE "Ready")
    /\ UNCHANGED <<config, tape, suspended, editor, call, nread, nadv, fed, negRes,
                   unflushed, flushedTag, yields, seen, hist0, term0, probes>>

\* ablock!: the operation returned WouldBlock, the task yields
WouldBlock ==
    /\ pc \in {"write", "flush", "read"}
    /\ ~suspended
    /\ blocks < MaxBlocks
    /\ ev' = Attempt("WouldBlock", "")
    /\ blocks' = blocks + 1
    /\ yields' = yields + 1
    /\ suspended' = TRUE
    /\ UNCHANGED <<config, tape, phase, ctx, initializer, control, editor, lineVars, result,
                   call, nread, nadv, fed, negRes, unflushed, flushedTag, seen,
                   hist0, term0, probes>>

\* ablock!: one more WouldBlock when blocks and yields have reached MaxBlocks,
\* where they stop counting
WouldBlockAgain ==
    /\ pc \in {"write", "flush", "read"}
    /\ ~suspended
    /\ blocks >= MaxBlocks
    /\ ev' = Attempt("WouldBlock", "")
    /\ suspended' = TRUE
    /\ UNCHANGED <<config, tape, phase, ctx, initializer, control, editor, lineVars, result,
                   call, record, hist0, term0, probes>>

\* Resume, but IO::write starts again at the first byte of its buffer
ResumeRestartsWrite ==
    /\ suspended
    /\ suspended' = FALSE
    /\ wi' = 1
    /\ UNCHANGED <<config, tape, phase, ctx, initializer, pc, items, item, wbuf, accepted,
                   editor, lineVars, result, call, ev, record, hist0, term0, probes>>

\* the driver resumes the task: the loop of ablock! attempts the operation again
Resume ==
    /\ suspended
    /\ suspended' = FALSE
    /\ UNCHANGED <<config, tape, phase, ctx, initializer, control, editor, lineVars, result,
                   call, ev, record, hist0, term0, probes>>

\* HardError, but the loop attempts the operation again
HardErrorRetries ==
    /\ pc \in {"write", "flush", "read"}
    /\ ~suspended
    /\ \E e \in Errs : ev' = Attempt("Other", e)
    /\ UNCHANGED <<config, tape, phase, ctx, suspended, initializer, control, editor, lineVars,
                   result, call, record, hist0, term0, probes>>

\* HardError, but an error of the flush of a terminating item is dropped: the
\* call returns what the item stands for
HardErrorLostAtEnd ==
    /\ pc \in {"write", "flush", "read"}
    /\ ~suspended
    /\ \E e \in Errs :
         /\ ev' = Attempt("Other", e)
         /\ IF item.tag \in {"EndOfString", "Abort"}
            THEN Return(AfterItem(ctx, item, items, buffer).result, "Ready")
            ELSE Return(TransportError(pc, e), IF ctx = "new" THEN "Failed" ELSE "Ready")
    /\ UNCHANGED <<config, tape, suspended, editor, call, record, hist0, term0, probes>>

\* ablock!: the operation returned Other(e); the caller's or_else and ? end the call
HardError ==
    /\ pc \in {"write", "flush", "read"}
    /\ ~suspended
    /\ \E e \in Errs :
         /\ ev' = Attempt("Other", e)
         /\ Return(TransportError(pc, e), IF ctx = "new" THEN "Failed" ELSE "Ready")
    /\ UNCHANGED <<config, tape, suspended, editor, call, record, hist0, term0, probes>>

(***************************************************************************)
(* Editor::load_history and Editor::get_history                            *)
(***************************************************************************)
LoadHistory ==
    /\ phase = "Ready"
    /\ \E es \in LoadInputs :
         LET r == LoadEntries(history, cfg.hcap, es)
         IN  /\ history' = r.history
             /\ result' = [NoResult EXCEPT !.kind = "Loaded", !.count = r.accepted]
    /\ Fresh("load_history")
    /\ UNCHANGED <<config, tape, phase, ctx, suspended, initializer, control, buffer, cursor,
                   terminal, lineVars, unflushed, hist0, term0, probes>>

\* GetHistory, but the entries are yielded newest first
GetHistoryNewestFirst ==
    /\ phase = "Ready"
    /\ result' = [NoResult EXCEPT !.kind = "History",
                      !.entries = [i \in 1..Len(history) |-> history[Len(history) + 1 - i]]]
    /\ Fresh("get_history")
    /\ UNCHANGED <<config, tape, phase, ctx, suspended, initializer, control, editor,
                   lineVars, unflushed, hist0, term0, probes>>

GetHistory ==
    /\ phase = "Ready"
    /\ result' = [NoResult EXCEPT !.kind = "History", !.entries = history]
    /\ Fresh("get_history")
    /\ UNCHANGED <<config, tape, phase, ctx, suspended, initializer, control, editor,
                   lineVars, unflushed, hist0, term0, probes>>

Next ==
    \/ New
    \/ NewFlush
    \/ NewRead
    \/ Readline
    \/ ItemFlush
    \/ ReadlineRead
    \/ WriteOk
    \/ WouldBlock
    \/ Resume
    \/ HardError
    \/ LoadHistory
    \/ GetHistory

Spec == Init /\ [][Next]_vars

SpecScenario == InitScenario /\ [][Next]_vars

SpecRing == InitRing /\ [][Next]_vars

\* the transport may answer would-block without bound
NextLive ==
    \/ Next
    \/ WouldBlockAgain

\* the driver resumes a task that has yielded; an operation that is attempted
\* again and again eventually returns Ok, unless it fails
SpecLive ==
    /\ InitLive
    /\ [][NextLive]_vars
    /\ WF_vars(Resume)
    /\ SF_vars(WriteOk)
    /\ SF_vars(NewFlush)
    /\ SF_vars(ItemFlush)
    /\ SF_vars(NewRead)
    /\ SF_vars(ReadlineRead)

(***************************************************************************)
(* Properties.                                                             *)
(***************************************************************************)
Range(q) == {q[i] : i \in 1..Len(q)}

InReadline == ctx \in {"reset", "advance"}

\* C1: in a readline call no byte is read while an item of reset() or of the
\* previous byte is still to be written and flushed; every item is flushed with
\* all of its bytes accepted, in order; every byte read is the byte passed to
\* line.advance, once; so the call alternates between one byte read and the
\* whole output of that byte.
C1_ReadlineAlternates ==
    InReadline =>
        /\ nadv = nread
        /\ (pc = "read" => unflushed = 0 /\ items = <<>> /\ item = NoItem)
        /\ (pc \in {"write", "flush"} => unflushed = Len(items) + 1)
        /\ (pc = "write" => item.has /\ wbuf = item.bytes /\ wi \in 1..Len(wbuf)
                            /\ accepted = SubSeq(wbuf, 1, wi - 1))
        /\ (pc = "flush" /\ item.has => accepted = item.bytes)
        /\ (nread = 0 => ctx = "reset" /\ buffer = <<>>)
        /\ (nread > 0 => ctx = "advance" /\ fed \in KeyAlphabet \cup Range(ScenarioKeys))
        /\ (ev.op = "read" /\ ev.res = "Ok" => fed = ev.byte /\ nread > 0)

\* C1 happens: the second byte of a call has been read and its output is being written
C1_Witness ==
    /\ ctx = "advance"
    /\ nread = 2
    /\ pc = "write"
    /\ wi = 2
    /\ Len(items) > 0

\* C2: once an EndOfString item has been flushed the call has returned Ok with
\* the content of the line buffer, and the flush of that item was the last
\* operation on the transport; Ok is returned in no other way.
C2_EndOfStringEndsCall ==
    /\ (call = "readline" /\ flushedTag = "EndOfString") =>
           /\ result.kind = "Ok"
           /\ result.line = buffer
           /\ phase = "Ready"
           /\ pc = "idle"
           /\ ev.op = "flush" /\ ev.res = "Ok"
    /\ result.kind = "Ok" => call = "readline" /\ flushedTag = "EndOfString"

\* C2 happens: a call has returned a line that is not empty
C2_Witness ==
    /\ result.kind = "Ok"
    /\ Len(result.line) > 0
    /\ blocks > 0

\* C3: once an Abort item has been flushed the call has returned Aborted, with no
\* line text, and the flush of that item was the last operation on the
\* transport; Aborted is returned in no other way.
C3_AbortEndsCall ==
    /\ (call = "readline" /\ flushedTag = "Abort") =>
           /\ result.kind = "Aborted"
           /\ result.line = <<>>
           /\ phase = "Ready"
           /\ pc = "idle"
           /\ ev.op = "flush" /\ ev.res = "Ok"
    /\ result.kind = "Aborted" => call = "readline" /\ flushedTag = "Abort"

\* C3 happens: a call in which text was typed has returned Aborted
C3_Witness ==
    /\ result.kind = "Aborted"
    /\ buffer # <<>>
    /\ nread > 1

\* C4: a hard error of a transport operation ends the call at once with ReadError
\* (a read) or WriteError (a write or flush) that carries the transport's error
\* value; it is the last operation of the call; in Editor::new no Editor exists
\* afterwards.
C4_HardErrorIsFatal ==
    /\ ev.res = "Other" =>
           /\ result.kind = IF ev.op = "read" THEN "ReadError" ELSE "WriteError"
           /\ result.err = ev.err
           /\ ev.err \in Errs
           /\ pc = "idle"
           /\ ~suspended
           /\ phase = IF call = "new" THEN "Failed" ELSE "Ready"
    /\ result.kind \in {"ReadError", "WriteError"} => ev.res = "Other"
    /\ phase = "Failed" => terminal = NoTerminal /\ pc = "idle" /\ ctx = "none"

\* C4 happens: a flush in a readline call failed after a would-block result
C4_Witness ==
    /\ call = "readline"
    /\ result.kind = "WriteError"
    /\ result.err = "E2"
    /\ ev.op = "flush"
    /\ blocks > 0
    /\ nread > 0

\* C5: Editor::new writes the bytes of the probe in order, then flushes, then
\* reads; every byte read goes to the negotiator; it returns Ok exactly when the
\* negotiator returned Item, with that Terminal, an empty buffer and an empty
\* history; the probe is all it writes.
C5_NewNegotiates ==
    /\ call = "new" =>
           /\ probes = 1
           /\ nadv = nread
           /\ (pc = "write" => nread = 0 /\ flushedTag = "none" /\ wbuf = InitProbe
                               /\ accepted = SubSeq(InitProbe, 1, wi - 1))
           /\ (pc = "flush" => nread = 0 /\ flushedTag = "none" /\ accepted = InitProbe)
           /\ (pc = "read" => flushedTag = "Probe" /\ accepted = InitProbe
                              /\ negRes \in {"none", "Continue"})
           /\ (nread > 0 => flushedTag = "Probe")
           /\ (negRes = "Item" <=> result.kind = "NewOk")
           /\ (negRes \in {"none", "Continue"} /\ pc = "idle" =>
                   result.kind \in {"ReadError", "WriteError"})
           /\ (result.kind = "NewOk" =>
                   /\ phase = "Ready"
                   /\ terminal = term0
                   /\ terminal # NoTerminal
                   /\ buffer = <<>> /\ cursor = 0
                   /\ history = <<>>
                   /\ ev.op = "read" /\ ev.res = "Ok" /\ ev.byte = fed)
    /\ result.kind = "NewOk" => call = "new"

\* C5 happens: Editor::new has returned an Editor
C5_Witness ==
    /\ call = "new"
    /\ result.kind = "NewOk"
    /\ nread >= 6
    /\ blocks > 0

\* C6: when the negotiator returns InvalidInput, Editor::new returns ParserError,
\* the byte was the last thing read, nothing is written, and there is no Editor:
\* the session stays Failed.
C6_MalformedReplyIsTerminal ==
    /\ negRes = "InvalidInput" =>
           /\ call = "new"
           /\ result.kind = "ParserError"
           /\ phase = "Failed"
           /\ pc = "idle" /\ ctx = "none"
           /\ terminal = NoTerminal
           /\ ev.op = "read" /\ ev.res = "Ok"
           /\ probes = 1
    /\ result.kind = "ParserError" => negRes = "InvalidInput"

\* C6 happens: a reply went wrong after its first bytes
C6_Witness ==
    /\ result.kind = "ParserError"
    /\ nread >= 3

\* C7: once Editor::new has returned, the probe is never written again, the
\* negotiator never runs again, and the Terminal stays the one negotiated.
C7_GeometryFrozen ==
    /\ probes <= 1
    /\ phase \in {"Ready", "Editing"} =>
           /\ probes = 1
           /\ terminal = term0
           /\ terminal # NoTerminal
           /\ initializer = InitializerIdle
           /\ ctx # "new"
           /\ (call # "new" => negRes = "none")

\* C7 happens: after a call that completed with the line "D", a call aborted
C7_Witness ==
    /\ call = "readline"
    /\ result.kind = "Aborted"
    /\ hist0 = <<<<Byte.D>>>>
    /\ terminal.width > 0

\* the bytes of the entries of history h
HistoryBytes(h) == UNION {Range(h[i]) : i \in 1..Len(h)}

\* a readline call starts from an empty line, and returns to Ready
C8_StartsEmpty ==
    /\ (InReadline /\ nread = 0 => buffer = <<>> /\ cursor = 0)
    /\ (call = "readline" /\ result.kind # "Pending" => phase = "Ready" /\ pc = "idle")
    /\ (call = "readline" /\ result.kind = "Pending" => phase = "Editing")

\* C8 as stated: every readline call starts from an empty line and returns to
\* Ready, and the text it returns consists only of bytes read during that call.
C8_TextOnlyFromThisCall ==
    /\ C8_StartsEmpty
    /\ (result.kind = "Ok" => Range(result.line) \subseteq seen)

\* C8, amended: every readline call starts from an empty line and returns to
\* Ready, and the text it returns consists only of bytes read during that call
\* and of bytes of the history entries the call started with (recalled by Up).
C8_TextFromThisCallOrHistory ==
    /\ C8_StartsEmpty
    /\ (result.kind = "Ok" =>
           /\ Range(result.line) \subseteq seen \cup HistoryBytes(hist0)
           /\ Len(result.line) <= cfg.cap)

\* C8 happens: after a call that completed with the line "D", a call returns the
\* line "A" that was typed in it
C8_Witness ==
    /\ result.kind = "Ok"
    /\ hist0 = <<<<Byte.D>>>>
    /\ result.line = <<Byte.A>>
    /\ seen = {Byte.A}

\* C9 as stated: a readline call that ends with Aborted, ReadError or WriteError
\* leaves the history as it was when the call started.
C9_FailedCallKeepsHistory ==
    (call = "readline" /\ result.kind \in {"Aborted", "ReadError", "WriteError"}) =>
        history = hist0

\* C10 as stated: in the scenario (capacity 10, reply 24;80), Editor::new returns
\* a Terminal of width 80 and height 24; a readline call that has read
\* h e l l o Backspace p holds "help"; when it has read Enter too and returns,
\* it returns "help", after EndOfString.
C10_ScenarioReturnsHelp ==
    /\ (phase \in {"Ready", "Editing"} => terminal = [width |-> 80, height |-> 24])
    /\ (InReadline /\ nread = 7 /\ tape.bytes = <<Byte.CR>> =>
           buffer = <<104, 101, 108, 112>>)
    /\ (call = "readline" /\ nread = 8 /\ tape.bytes = <<>> /\ result.kind # "Pending" =>
           \/ result.kind = "WriteError"
           \/ /\ result.kind = "Ok"
              /\ result.line = <<104, 101, 108, 112>>
              /\ flushedTag = "EndOfString")

\* C10, amended: as above, but Backspace deletes the one byte left of the
\* cursor, the "o": the buffer is "hellp", and the call returns "hellp".
C10_ScenarioReturnsHellp ==
    /\ (phase \in {"Ready", "Editing"} => terminal = [width |-> 80, height |-> 24])
    /\ (InReadline /\ nread = 7 /\ tape.bytes = <<Byte.CR>> =>
           buffer = <<104, 101, 108, 108, 112>> /\ cursor = 5)
    /\ (call = "readline" /\ nread = 8 /\ tape.bytes = <<>> /\ result.kind # "Pending" =>
           \/ result.kind = "WriteError"
           \/ /\ result.kind = "Ok"
              /\ result.line = <<104, 101, 108, 108, 112>>
              /\ flushedTag = "EndOfString")

\* C10 happens: the call that read the eight keys has returned a line
C10_Witness ==
    /\ tape.scripted
    /\ call = "readline"
    /\ nread = 8
    /\ result.kind = "Ok"
    /\ cfg.cap = 10

\* the n last elements of q, all of q if it has fewer
LastN(q, n) == SubSeq(q, Len(q) - Min(Len(q), n) + 1, Len(q))

\* C11: the history never holds more entries than its capacity; a readline call
\* that returns a line leaves the history as the capacity most recent of the
\* entries it had and that line, oldest first; load_history accepts no more
\* entries than there is room for; get_history yields the entries of the
\* history, oldest first; with capacity 2, pushing "c" onto "a", "b" gives
\* "b", "c".
C11_RingKeepsMostRecent ==
    /\ Len(history) <= cfg.hcap
    /\ (call = "readline" /\ result.kind = "Ok" =>
           history = LastN(Append(hist0, result.line), cfg.hcap))
    /\ (call = "readline" /\ result.kind = "Ok" /\ result.line = <<99>>
          /\ hist0 = <<(<<97>>), (<<98>>)>> => history = <<(<<98>>), (<<99>>)>>)
    /\ (result.kind = "Loaded" => result.count <= cfg.hcap /\ result.count <= Len(history))
    /\ (result.kind = "History" =>
           /\ call = "get_history"
           /\ result.entries = history
           /\ Len(result.entries) <= cfg.hcap)

\* C11 happens: "a", "b", "c" went into a history of capacity 2, and get_history
\* yields "b", "c"
C11_Witness ==
    /\ cfg.hcap = 2
    /\ tape.bytes = <<>>
    /\ hist0 = <<(<<97>>), (<<98>>)>>
    /\ result.kind = "History"
    /\ result.entries = <<(<<98>>), (<<99>>)>>

\* the input still to come ends the running call: the rest of the reply for
\* Editor::new, Enter or the abort key for readline
InputTerminates ==
    IF ctx = "new" THEN tape.bytes # <<>>
    ELSE \E i \in 1..Len(tape.bytes) : tape.bytes[i] \in {Byte.CR, Byte.ETX}

\* C12: a would-block result never ends the call: the call stays pending, the
\* task yields, and it is at the same operation, however often that happens;
\* while the task is suspended the call does not return.  And when the driver
\* resumes the task, every operation attempted again and again eventually
\* returns Ok or fails, and the input still holds a terminating key (or the
\* reply), the call eventually returns.
C12_NoTimeout ==
    /\ [][(~suspended /\ ev'.res = "WouldBlock") =>
             (suspended' /\ result = Pending /\ result' = Pending /\ pc' = pc
              /\ ev'.op = pc)]_vars
    /\ [][suspended => (result' = Pending /\ pc' = pc)]_vars
    /\ ((result.kind = "Pending" /\ InputTerminates) ~> (result.kind # "Pending"))

\* C12 happens: a call that met would-block results has returned the line "A"
C12_Witness ==
    /\ call = "readline"
    /\ result.kind = "Ok"
    /\ result.line = <<Byte.A>>
    /\ blocks = MaxBlocks
    /\ tape.bytes = <<Byte.D, Byte.ETX>>

Ops == {"write", "flush", "read"}

\* C13: during a call there are as many yields as would-block results; the task
\* is suspended only after a would-block result, never after Ok or a hard
\* error; and as long as a would-block result is the last result, the call is
\* pending and the operation it is at is the one that got it, for a write with
\* the same byte.
C13_OneYieldPerWouldBlock ==
    /\ yields = blocks
    /\ (suspended => ev.res = "WouldBlock" /\ blocks > 0 /\ pc \in Ops)
    /\ (ev.res \in {"Ok", "Other"} => ~suspended)
    /\ (ev.res = "WouldBlock" =>
           /\ result = Pending
           /\ blocks > 0
           /\ pc = ev.op
           /\ ev.tag = item.tag
           /\ (pc = "write" => ev.byte = wbuf[wi])
           /\ (pc # "write" => ev.byte = 0))

\* C13 happens: the flush of an item of a key was answered with would-block, the
\* task has yielded once
C13_Witness ==
    /\ suspended
    /\ ctx = "advance"
    /\ pc = "flush"
    /\ item.has
    /\ yields = 1

\* C14: after a hard error nothing of the call is left to attempt again: the
\* call has returned, with ReadError or WriteError and the very error value of
\* the transport, whether or not would-block results came before; a call
\* returns a transport error only when a hard error was the last result, never
\* after a would-block result.
C14_HardErrorEndsRetry ==
    /\ (ev.res = "Other" =>
           /\ ev.err \in Errs
           /\ result.kind \in {"ReadError", "WriteError"}
           /\ result.err = ev.err
           /\ pc = "idle" /\ ~suspended
           /\ wbuf = <<>> /\ item = NoItem /\ items = <<>>)
    /\ (result.kind \in {"ReadError", "WriteError"} =>
           ev.res = "Other" /\ result.err = ev.err)
    /\ (ev.res = "WouldBlock" => result.kind = "Pending" /\ result.err = "")

\* C14 happens: the second byte of a control sequence first met would-block,
\* then the hard error E1
C14_Witness ==
    /\ call = "readline"
    /\ ev.res = "Other"
    /\ ev.op = "write"
    /\ ev.byte = Byte.LBRACKET
    /\ result.err = "E1"
    /\ blocks > 0

\* C15: while IO::write runs, the bytes the transport accepted are the bytes
\* before the index of the loop, each once and in order; the byte submitted
\* last is the byte before the index when it was accepted and the byte at the
\* index when it met would-block; when the loop is over all bytes of the buffer
\* are accepted; after a hard error of a write the call has returned WriteError
\* and nothing of the buffer is left to submit.
C15_WriteInOrder ==
    /\ (pc = "write" => wi \in 1..Len(wbuf) /\ accepted = SubSeq(wbuf, 1, wi - 1))
    /\ (pc = "flush" => wi = Len(wbuf) + 1 /\ accepted = wbuf)
    /\ (ev.op = "write" /\ ev.res = "Ok" =>
           /\ pc \in {"write", "flush"}
           /\ wi > 1
           /\ ev.byte = wbuf[wi - 1]
           /\ Len(accepted) = wi - 1)
    /\ (ev.op = "write" /\ ev.res = "WouldBlock" =>
           /\ pc = "write"
           /\ ev.byte = wbuf[wi]
           /\ Len(accepted) = wi - 1)
    /\ (ev.op = "write" /\ ev.res = "Other" =>
           /\ pc = "idle"
           /\ wbuf = <<>>
           /\ result.kind = "WriteError")

\* C15 happens: the three bytes of a control sequence are accepted, the last one
\* after a would-block result
C15_Witness ==
    /\ pc = "flush"
    /\ ev.op = "write"
    /\ Len(accepted) = 3
    /\ accepted = item.bytes
    /\ blocks > 0

\* C16: in a readline call every item is flushed, with or without bytes: a byte
\* is read only when every item of the output before it has been flushed; the
\* flush of an item comes when all its bytes are accepted; after the flush of an
\* item comes its successor from its first byte, or the read; the call returns
\* a line or Aborted only when the terminating item has been flushed.
C16_FlushAfterEveryItem ==
    /\ (InReadline =>
           /\ (pc = "read" => unflushed = 0 /\ item = NoItem)
           /\ (pc \in {"write", "flush"} => unflushed = Len(items) + 1)
           /\ (pc = "write" => item.has /\ item.bytes # <<>>)
           /\ (pc = "flush" => accepted = (IF item.has THEN item.bytes ELSE <<>>))
           /\ (ev.op = "flush" /\ ev.res = "Ok" =>
                   /\ flushedTag = ev.tag
                   /\ (pc = "read" \/ (pc \in {"write", "flush"} /\ wi = 1 /\ accepted = <<>>))))
    /\ (call = "readline" /\ result.kind \in {"Ok", "Aborted"} =>
           /\ unflushed = 0
           /\ ev.op = "flush"
           /\ flushedTag \in {"EndOfString", "Abort"})

\* C16 happens: an item without bytes has been flushed, the next byte is read
C16_Witness ==
    /\ InReadline
    /\ ev.op = "flush" /\ ev.res = "Ok"
    /\ ev.tag = "NoOp"
    /\ pc = "read"

\* C17 as stated: the flush of an item is requested whether or not the writes of
\* its bytes succeeded: after a hard error of a write the call is still pending,
\* at the flush of that item.
C17_FlushAfterFailedWrite ==
    (call \in {"new", "readline"} /\ ev.op = "write" /\ ev.res = "Other") =>
        (pc = "flush" /\ result.kind = "Pending")

\* C18: the task is suspended only inside a read, a write or a flush; the
\* cursor is within the text and the text within the capacity, and the history
\* within its capacity, in every state, so at every yield; during a read the
\* output of the byte before is all handled.
C18_YieldsBetweenTransitions ==
    /\ 0 <= cursor /\ cursor <= Len(buffer) /\ Len(buffer) <= cfg.cap
    /\ Len(history) <= cfg.hcap
    /\ (suspended =>
           /\ pc \in Ops
           /\ ev.op = pc
           /\ result.kind = "Pending"
           /\ (pc = "read" => items = <<>> /\ item = NoItem)
           /\ (InReadline /\ nread = 0 => buffer = <<>> /\ history = hist0))

\* C18 happens: the task has yielded in the flush that follows a second "A",
\* dropped because the buffer of capacity 1 is full
C18_Witness ==
    /\ suspended
    /\ ctx = "advance"
    /\ pc = "flush"
    /\ item.tag = "NoOp"
    /\ nread = 2
    /\ fed = Byte.A
    /\ buffer = <<Byte.A>>
    /\ cursor = 1
    /\ Len(buffer) = cfg.cap

\* what a run is, but for would-block results: the input, the bytes accepted,
\* the Editor, the call and its result
Observable ==
    <<cfg, tape, phase, ctx, pc, initializer, items, item, wbuf, wi, accepted,
      buffer, cursor, terminal, history, prompt, parser, nav, result, call,
      nread, nadv, fed, negRes, unflushed, flushedTag, seen, hist0, term0, probes>>

\* C19: a would-block result and the resumption after it change nothing but the
\* suspension itself: no byte is accepted or read, the index of IO::write, the
\* line, the history and the result stay; every other step is taken while the
\* task is not suspended.  So a run is the run without would-block results, with
\* such steps put in.
C19_ResumptionIdempotent ==
    /\ [][(suspended' # suspended) => UNCHANGED Observable]_vars
    /\ [][(suspended' = suspended) => (~suspended /\ yields' \in {yields, 0})]_vars

\* C19 happens: the task was resumed in IO::write with one byte accepted before
\* the suspension
C19_Witness ==
    /\ ~suspended
    /\ ev.res = "WouldBlock"
    /\ ctx = "advance"
    /\ pc = "write"
    /\ wi = 2
    /\ accepted = <<Byte.ESC>>

\* C20: as long as the terminating item is in hand the call is pending, at the
\* write or the flush of that item; a call has returned a line only with the flush of
\* EndOfString returning Ok, and Aborted only with the flush of Abort returning
\* Ok; when a write or a flush of the call failed, that of the terminating item
\* included, the call has returned WriteError, with no line.
C20_OutcomeAfterFlush ==
    /\ (InReadline /\ item.tag \in {"EndOfString", "Abort"} =>
           result.kind = "Pending" /\ pc \in {"write", "flush"})
    /\ (call = "readline" /\ result.kind \in {"Ok", "Aborted"} =>
           /\ ev.op = "flush" /\ ev.res = "Ok"
           /\ ev.tag = (IF result.kind = "Ok" THEN "EndOfString" ELSE "Abort")
           /\ flushedTag = ev.tag)
    /\ (call = "readline" /\ ev.res = "Other" /\ ev.op \in {"write", "flush"} =>
           /\ result.kind = "WriteError"
           /\ result.line = <<>>
           /\ flushedTag \notin {"EndOfString", "Abort"})

\* C20 happens: the flush of EndOfString failed after text was typed
C20_Witness ==
    /\ call = "readline"
    /\ ev.res = "Other"
    /\ ev.op = "flush"
    /\ ev.tag = "EndOfString"
    /\ result.kind = "WriteError"
    /\ buffer # <<>>

=============================================================================
